---- MODULE Spec2Model ----
(***************************************************************************)
(* A model of the AlphaWolf server: Telegram Web App init-data             *)
(* verification, the telegramAuth middleware, the progress routes and the  *)
(* ad service.                                                             *)
(***************************************************************************)
EXTENDS Integers, Sequences, FiniteSets, TLC

(***************************************************************************)
(* Bounds of the model.                                                    *)
(***************************************************************************)
\* the longest init data (number of parameters, 'hash' included) considered
MaxParams == 3
\* the last day of the clock
MaxDay == 2
\* the largest amount of experience one request adds
MaxAmount == 4
\* the highest level a user is taken to
MaxLevel == 3
\* the number of requests that pass through telegramAuth
MaxRequests == 2
\* the number of view and click entries the ads hold together
MaxLog == 2
\* the points and premium days a user is granted in all
MaxGranted == 2
\* the number of processAdReward calls in flight together
MaxCalls == 2

(***************************************************************************)
(* JavaScript values.  Every scalar is a string, so that null, undefined   *)
(* and texts can be compared with one another.                             *)
(***************************************************************************)
Null == "(null)"
Undefined == "(undefined)"
\* an optional object: no object (null) is <<>>, the object o is <<o>>
None == <<>>
Some(o) == <<o>>

VARIABLES
  \* ---- the init data exchange (services/telegramBot.js) ----
  initData,     \* the parameters of the x-telegram-init-data header, in order
  signedPairs,  \* the parameters Telegram signed
  signToken,    \* the bot token Telegram signed them with
  botToken,     \* process.env.TELEGRAM_BOT_TOKEN of the server
  vres          \* the result of the last verifyTelegramData call (None: no call)

VARIABLES
  \* ---- the progress routes (routes/progress.js) ----
  userLevels,   \* the UserLevel collection: userId -> None or Some(document)
  today,        \* the day of the server's clock
  levelUpCalls, \* userId -> the levels handleLevelUp was called with, in order
  last          \* the last progress request handled and how it was answered

VARIABLES
  \* ---- telegramAuth (index.js) ----
  users,        \* the rows of the Supabase table 'users', in insertion order
  reqs          \* request -> how far telegramAuth is with it and what it did

VARIABLES
  \* ---- the ad service (services/adService.js) ----
  ads,          \* the Ad collection: adId -> None or Some(document)
  adUsers,      \* the User collection: userId -> None or Some(document)
  adLast        \* the last call of the ad service and how it ended

VARIABLES
  \* ---- the bot commands and notifications (services/telegramBot.js) ----
  telegramUsers,   \* the TelegramUser collection: chatId -> None or Some(document)
  achievementDocs, \* the Achievement collection
  botLast          \* the last command or notification and what it did

VARIABLES
  \* ---- processAdReward calls in flight (services/adService.js) ----
  calls         \* call -> how far it is and the documents it loaded

VARIABLES
  scope         \* the part of the server a run exercises

verifyVars == <<initData, signedPairs, signToken, botToken, vres>>
progressVars == <<userLevels, today, levelUpCalls, last>>
authVars == <<users, reqs>>
adVars == <<ads, adUsers, adLast>>
botVars == <<telegramUsers, achievementDocs, botLast>>
vars == <<scope, verifyVars, progressVars, authVars, adVars, botVars, calls>>
notVerify == <<scope, progressVars, authVars, adVars, botVars, calls>>
notProgress == <<scope, verifyVars, authVars, adVars, botVars, calls>>
notAuth == <<scope, verifyVars, progressVars, adVars, botVars, calls>>
notAds == <<scope, verifyVars, progressVars, authVars, botVars, calls>>
notBot == <<scope, verifyVars, progressVars, authVars, adVars, calls>>
notRace == <<scope, verifyVars, progressVars, authVars, botVars, adLast>>

(***************************************************************************)
(* The texts init data is made of.                                         *)
(***************************************************************************)
Tokens == {"tokA", "tokB"}
ParamKeys == {"auth_date", "query_id", "user"}
ParamValues(k) ==
  CASE k = "auth_date" -> {"1", "1\nquery_id=2"}
    [] k = "query_id"  -> {"2"}
    [] k = "user"      -> {"{\"id\":\"7\"}", "{bad", "null", ""}
Entry(k, v) == [key |-> k, value |-> v]
ParamEntries == UNION {{Entry(k, v) : v \in ParamValues(k)} : k \in ParamKeys}

\* String.prototype.localeCompare on the keys of the model: their
\* alphabetical order
KeyRank(k) ==
  CASE k = "auth_date" -> 1
    [] k = "hash"      -> 2
    [] k = "query_id"  -> 3
    [] k = "user"      -> 4
LocaleCompare(a, b) ==
  IF KeyRank(a) < KeyRank(b) THEN -1 ELSE IF KeyRank(a) > KeyRank(b) THEN 1 ELSE 0

\* JSON.parse on the texts of the model: an object with its fields, the
\* value null, or a SyntaxError
JSONParse(text) ==
  CASE text = "{\"id\":\"7\"}" ->
         [kind |-> "object", id |-> "7", username |-> Undefined,
          first_name |-> Undefined, last_name |-> Undefined]
    [] text = "null" ->
         [kind |-> "null", id |-> Null, username |-> Null,
          first_name |-> Null, last_name |-> Null]
    [] OTHER ->
         [kind |-> "SyntaxError", id |-> Null, username |-> Null,
          first_name |-> Null, last_name |-> Null]

\* crypto.createHmac('sha256', key).update(message).digest(): an ideal MAC,
\* a different digest for every different key or message
Hmac(key, message) == "hmac[" \o key \o "](" \o message \o ")"

(***************************************************************************)
(* URLSearchParams                                                         *)
(***************************************************************************)
\* data.get(name): the value of the first entry named name, or null
Get(data, name) ==
  IF \E i \in 1..Len(data) : data[i].key = name
  THEN data[CHOOSE i \in 1..Len(data) :
              /\ data[i].key = name
              /\ \A j \in 1..(i - 1) : data[j].key # name].value
  ELSE Null

\* data.delete(name): every entry named name is removed
RECURSIVE Delete(_, _)
Delete(data, name) ==
  IF data = <<>> THEN <<>>
  ELSE IF Head(data).key = name THEN Delete(Tail(data), name)
  ELSE <<Head(data)>> \o Delete(Tail(data), name)

(***************************************************************************)
(* verifyTelegramData                                                      *)
(***************************************************************************)
\* one step of Array.prototype.sort (stable): e goes behind the entries that
\* do not compare greater than it
InsertSorted(s, e) ==
  LET n == Cardinality({i \in 1..Len(s) : LocaleCompare(s[i].key, e.key) <= 0})
  IN SubSeq(s, 1, n) \o <<e>> \o SubSeq(s, n + 1, Len(s))

\* .sort(([a], [b]) => a.localeCompare(b))
RECURSIVE SortEntries(_)
SortEntries(s) ==
  IF s = <<>> THEN <<>>
  ELSE InsertSorted(SortEntries(SubSeq(s, 1, Len(s) - 1)), s[Len(s)])

\* .map(([key, value]) => `${key}=${value}`).join('\n')
RECURSIVE JoinLines(_)
JoinLines(s) ==
  IF s = <<>> THEN ""
  ELSE IF Len(s) = 1 THEN s[1].key \o "=" \o s[1].value
  ELSE s[1].key \o "=" \o s[1].value \o "\n" \o JoinLines(Tail(s))

\* a slip: the entries are joined in the order of the string
DataCheckString_Unsorted(data) == JoinLines(data)

DataCheckString(data) == JoinLines(SortEntries(data))

SecretKey(token) == Hmac("WebAppData", token)

\* a slip: the MAC is keyed with a value that does not depend on the bot token
CalculatedHash_NoToken(data, token) == Hmac(SecretKey("tokB"), DataCheckString(data))

CalculatedHash(data, token) == Hmac(SecretKey(token), DataCheckString(data))

\* the user object parsed from the 'user' parameter; None when JSON.parse
\* or the field access throws
ParseUser(data) ==
  LET text == Get(data, "user")
      parsed == JSONParse(text)
  IN IF text = Null \/ text = ""
     THEN Some([id |-> Null, username |-> Null,
                first_name |-> Null, last_name |-> Null])
     ELSE IF parsed.kind = "object"
     THEN Some([id |-> parsed.id, username |-> parsed.username,
                first_name |-> parsed.first_name, last_name |-> parsed.last_name])
     ELSE None

\* verifyTelegramData(initData): {user} with user None for {user: null}.
\* threw is whether the promise rejects: every step is inside the try.
VerifyTelegramData(params, token) ==
  LET hash == Get(params, "hash")
      data == Delete(params, "hash")
  IN IF CalculatedHash(data, token) # hash
     THEN [user |-> None, threw |-> FALSE]
     ELSE [user |-> ParseUser(data), threw |-> FALSE]

(***************************************************************************)
(* The exchange: Telegram signs the launch parameters, the client (or      *)
(* whoever holds the string) may reorder or alter them, the server         *)
(* verifies the header it receives.                                        *)
(***************************************************************************)
\* what Telegram appends: the MAC of the parameters sorted by key
\* (the launch parameters below are listed in key order)
TelegramHash(pairs, token) == Hmac(Hmac("WebAppData", token), JoinLines(pairs))

\* the launch parameters Telegram may sign: at most one value for each key
RECURSIVE LaunchParams(_)
LaunchParams(keys) ==
  IF keys = {} THEN {<<>>}
  ELSE LET k == CHOOSE x \in keys : \A y \in keys : KeyRank(x) >= KeyRank(y)
           rest == LaunchParams(keys \ {k})
       IN rest \cup {Append(s, Entry(k, v)) : s \in rest, v \in ParamValues(k)}

HashValues == {"deadbeef"}

InitVerify ==
  /\ signedPairs \in LaunchParams(ParamKeys)
  /\ signToken \in Tokens
  /\ botToken = "tokA"
  /\ initData = Append(signedPairs, Entry("hash", TelegramHash(signedPairs, signToken)))
  /\ vres = None

\* a parameter is added to the string
AddParam ==
  /\ scope = "verify"
  /\ Len(initData) < MaxParams
  /\ \E e \in ParamEntries \cup {Entry("hash", h) : h \in HashValues} :
       initData' = Append(initData, e)
  /\ vres' = None
  /\ UNCHANGED <<signedPairs, signToken, botToken, notVerify>>

\* two neighbouring parameters change places
Reorder ==
  /\ scope = "verify"
  /\ \E i \in 1..(Len(initData) - 1) :
       initData' = [initData EXCEPT ![i] = initData[i + 1], ![i + 1] = initData[i]]
  /\ vres' = None
  /\ UNCHANGED <<signedPairs, signToken, botToken, notVerify>>

\* a parameter gets another value
ChangeValue ==
  /\ scope = "verify"
  /\ \E i \in 1..Len(initData) :
       \E v \in (IF initData[i].key = "hash" THEN HashValues
                 ELSE ParamValues(initData[i].key)) \ {initData[i].value} :
         initData' = [initData EXCEPT ![i].value = v]
  /\ vres' = None
  /\ UNCHANGED <<signedPairs, signToken, botToken, notVerify>>

\* a parameter is removed
RemoveParam ==
  /\ scope = "verify"
  /\ \E i \in 1..Len(initData) :
       initData' = SubSeq(initData, 1, i - 1) \o SubSeq(initData, i + 1, Len(initData))
  /\ vres' = None
  /\ UNCHANGED <<signedPairs, signToken, botToken, notVerify>>

\* the server verifies the header
Verify ==
  /\ scope = "verify"
  /\ vres = None
  /\ vres' = Some(VerifyTelegramData(initData, botToken))
  /\ UNCHANGED <<initData, signedPairs, signToken, botToken, notVerify>>

NextVerify ==
  \/ AddParam
  \/ Reorder
  \/ ChangeValue
  \/ RemoveParam
  \/ Verify



(***************************************************************************)
(* The UserLevel model (models/UserLevel.js is not among the sources; its  *)
(* fields are those the bot's /progress and /streak replies read).         *)
(***************************************************************************)
\* the users whose requests reach the progress routes (req.userId)
ProgressUsers == {"u1"}

\* the experience a level takes
ExperienceToNextLevel == 2

\* new UserLevel({ userId })
NewUserLevel(day) ==
  [level |-> 1, experience |-> 0, experienceToNextLevel |-> ExperienceToNextLevel,
   streak |-> 0, lastActive |-> day, achievements |-> <<>>]

\* userLevel.addExperience(amount): the experience is added and a level is
\* gained for every threshold it crosses
RECURSIVE CrossThresholds(_)
CrossThresholds(doc) ==
  IF doc.experience >= doc.experienceToNextLevel
  THEN CrossThresholds([doc EXCEPT !.experience = @ - doc.experienceToNextLevel,
                                   !.level = @ + 1])
  ELSE doc
AddExperience(doc, amount) ==
  CrossThresholds([doc EXCEPT !.experience = @ + amount])

\* userLevel.updateStreak(): one more on the day after the last active day,
\* reset after a skipped day, unchanged on the same day
UpdateStreak(doc, day) ==
  [doc EXCEPT !.streak = IF day = doc.lastActive + 1 THEN @ + 1
                         ELSE IF day > doc.lastActive + 1 THEN 1
                         ELSE @,
              !.lastActive = day]

(***************************************************************************)
(* The progress routes.  A handler is one step; fail names the awaited     *)
(* call that throws during it ("none": none does).  Its outcome is the     *)
(* collection entry it leaves, the response, and the handleLevelUp call.   *)
(***************************************************************************)
FailPoints(route) ==
  CASE route = "GET /progress" -> {"none", "findOne", "save"}
    [] route = "POST /experience" ->
         {"none", "findOne", "addExperience", "updateStreak", "handleLevelUp"}
    [] route = "POST /sync-telegram" -> {"none", "syncUserProgress"}
    [] route = "GET /achievements" -> {"none", "findOne"}

Outcome(stored, status, message, threw, steps, levelUp) ==
  [stored |-> stored, status |-> status, message |-> message, threw |-> threw,
   steps |-> steps, levelUp |-> levelUp, responses |-> 1, escaped |-> FALSE]

\* a slip: the new document is answered but not saved
GetProgressHandler_NoSave(stored, day, fail) ==
  IF fail = "findOne"
  THEN Outcome(stored, 500, "Error fetching progress", "findOne", <<"findOne">>, None)
  ELSE Outcome(stored, 200, "", "none", <<"findOne">>, None)

\* router.get('/progress')
GetProgressHandler(stored, day, fail) ==
  IF fail = "findOne"
  THEN Outcome(stored, 500, "Error fetching progress", "findOne", <<"findOne">>, None)
  ELSE IF stored # None
  THEN Outcome(stored, 200, "", "none", <<"findOne">>, None)
  ELSE IF fail = "save"
  THEN Outcome(stored, 500, "Error fetching progress", "save",
               <<"findOne", "save">>, None)
  ELSE Outcome(Some(NewUserLevel(day)), 200, "", "none", <<"findOne", "save">>, None)

\* a slip: updateStreak is not called
ExperienceHandler_NoStreak(stored, amount, day, fail) ==
  LET userLevel == IF stored = None THEN NewUserLevel(day) ELSE stored[1]
      added == AddExperience(userLevel, amount)
  IN Outcome(Some(added), 200, "", "none", <<"findOne", "addExperience">>, None)

\* router.post('/experience')
ExperienceHandler(stored, amount, day, fail) ==
  LET userLevel == IF stored = None THEN NewUserLevel(day) ELSE stored[1]
      oldLevel == userLevel.level
      added == AddExperience(userLevel, amount)
      streaked == UpdateStreak(added, day)
      message == "Error updating experience"
  IN IF fail = "findOne"
     THEN Outcome(stored, 500, message, "findOne", <<"findOne">>, None)
     ELSE IF fail = "addExperience"
     THEN Outcome(stored, 500, message, "addExperience",
                  <<"findOne", "addExperience">>, None)
     ELSE IF fail = "updateStreak"
     THEN Outcome(Some(added), 500, message, "updateStreak",
                  <<"findOne", "addExperience", "updateStreak">>, None)
     ELSE IF streaked.level > oldLevel
     THEN IF fail = "handleLevelUp"
          THEN Outcome(Some(streaked), 500, message, "handleLevelUp",
                       <<"findOne", "addExperience", "updateStreak", "handleLevelUp">>,
                       Some(streaked.level))
          ELSE Outcome(Some(streaked), 200, "", "none",
                       <<"findOne", "addExperience", "updateStreak", "handleLevelUp">>,
                       Some(streaked.level))
     ELSE Outcome(Some(streaked), 200, "", "none",
                  <<"findOne", "addExperience", "updateStreak">>, None)

\* router.post('/sync-telegram')
SyncTelegramHandler(stored, fail) ==
  IF fail = "syncUserProgress"
  THEN Outcome(stored, 500, "Error syncing progress", "syncUserProgress",
               <<"syncUserProgress">>, None)
  ELSE Outcome(stored, 200, "Progress synced with Telegram", "none",
               <<"syncUserProgress">>, None)

\* a slip: the lookup is outside the try
GetAchievementsHandler_NoCatch(stored, fail) ==
  IF fail = "findOne"
  THEN [Outcome(stored, 0, "", "findOne", <<"findOne">>, None)
          EXCEPT !.responses = 0, !.escaped = TRUE]
  ELSE IF stored = None
  THEN Outcome(stored, 404, "User progress not found", "none", <<"findOne">>, None)
  ELSE Outcome(stored, 200, "", "none", <<"findOne">>, None)

\* router.get('/achievements')
GetAchievementsHandler(stored, fail) ==
  IF fail = "findOne"
  THEN Outcome(stored, 500, "Error fetching achievements", "findOne", <<"findOne">>, None)
  ELSE IF stored = None
  THEN Outcome(stored, 404, "User progress not found", "none", <<"findOne">>, None)
  ELSE Outcome(stored, 200, "", "none", <<"findOne">>, None)

NoRequest ==
  [route |-> "none", userId |-> "none", status |-> 0, message |-> "",
   threw |-> "none", steps |-> <<>>, responses |-> 0, escaped |-> FALSE]

\* what a handled request leaves in the state
Handled(route, u, out) ==
  /\ scope = "progress"
  /\ userLevels' = [userLevels EXCEPT ![u] = out.stored]
  /\ levelUpCalls' = [levelUpCalls EXCEPT ![u] = @ \o out.levelUp]
  /\ last' = [route |-> route, userId |-> u, status |-> out.status,
              message |-> out.message, threw |-> out.threw, steps |-> out.steps,
              responses |-> out.responses, escaped |-> out.escaped]
  /\ UNCHANGED <<today, notProgress>>

InitProgress ==
  /\ userLevels = [u \in ProgressUsers |-> None]
  /\ today = 0
  /\ levelUpCalls = [u \in ProgressUsers |-> <<>>]
  /\ last = NoRequest

\* midnight passes
Tick ==
  /\ scope = "progress"
  /\ today < MaxDay
  /\ today' = today + 1
  /\ UNCHANGED <<userLevels, levelUpCalls, last, notProgress>>

GetProgress ==
  \E u \in ProgressUsers, fail \in FailPoints("GET /progress") :
    Handled("GET /progress", u, GetProgressHandler(userLevels[u], today, fail))

PostExperience ==
  \E u \in ProgressUsers, amount \in 0..MaxAmount, fail \in FailPoints("POST /experience") :
    LET out == ExperienceHandler(userLevels[u], amount, today, fail)
    IN /\ out.stored # None => out.stored[1].level <= MaxLevel
       /\ Handled("POST /experience", u, out)

SyncTelegram ==
  \E u \in ProgressUsers, fail \in FailPoints("POST /sync-telegram") :
    Handled("POST /sync-telegram", u, SyncTelegramHandler(userLevels[u], fail))

GetAchievements ==
  \E u \in ProgressUsers, fail \in FailPoints("GET /achievements") :
    Handled("GET /achievements", u, GetAchievementsHandler(userLevels[u], fail))

NextProgress ==
  \/ Tick
  \/ GetProgress
  \/ PostExperience
  \/ SyncTelegram
  \/ GetAchievements

(***************************************************************************)
(* telegramAuth.  The middleware runs up to its next await in one step:    *)
(* the header check and the verification, then the select answered by the  *)
(* datastore, then the insert answered by the datastore.  Requests         *)
(* interleave at the awaits.                                               *)
(***************************************************************************)
ReqIds == 1..MaxRequests

\* the x-telegram-init-data header as Telegram issues it for pairs
Header(pairs, token) == Append(pairs, Entry("hash", TelegramHash(pairs, token)))

UserSeven == <<Entry("auth_date", "1"), Entry("user", "{\"id\":\"7\"}")>>

\* the headers requests carry: none, init data of user 7, the same signed
\* with another bot token, the same with the hash of other data, init data
\* without a 'user' parameter, and init data whose 'user' is not JSON
Headers ==
  {None,
   Some(Header(UserSeven, "tokA")),
   Some(Header(UserSeven, "tokB")),
   Some(Append(UserSeven, Entry("hash", TelegramHash(<<Entry("auth_date", "1")>>, "tokA")))),
   Some(Header(<<Entry("auth_date", "1")>>, "tokA")),
   Some(Header(<<Entry("user", "{bad")>>, "tokA"))}

NewRequest ==
  [pc |-> "new", header |-> None, user |-> None, verified |-> FALSE,
   dbAccesses |-> 0, dbError |-> "none", source |-> "none", threw |-> "none",
   status |-> 0, error |-> "", responses |-> 0, nextCalls |-> 0,
   reqUser |-> None, token |-> None]

\* res.status(401).json({ error })
Unauthorized(req, error) ==
  [req EXCEPT !.pc = "done", !.status = 401, !.error = error, !.responses = @ + 1]

\* a slip: the header is not checked before it is verified
Begin_NoHeaderCheck(req, header, token) ==
  LET user == IF header = None THEN None
              ELSE VerifyTelegramData(header[1], token).user
      seen == [req EXCEPT !.header = header, !.verified = TRUE]
  IN IF user = None THEN Unauthorized(seen, "Invalid Telegram data")
     ELSE [seen EXCEPT !.pc = "select", !.user = user]

\* from the header check to the select that is awaited
Begin(req, header, token) ==
  IF header = None
  THEN Unauthorized([req EXCEPT !.header = header], "No Telegram data provided")
  ELSE LET user == VerifyTelegramData(header[1], token).user
           seen == [req EXCEPT !.header = header, !.verified = TRUE]
       IN IF user = None THEN Unauthorized(seen, "Invalid Telegram data")
          ELSE [seen EXCEPT !.pc = "select", !.user = user]

\* supabase.from('users').select('*').eq('telegram_id', id).single():
\* the row when exactly one matches, the error PGRST116 when none or several do
SelectSingle(table, id, fails) ==
  LET found == {i \in 1..Len(table) : id # Null /\ table[i].telegram_id = id}
  IN IF fails THEN [data |-> None, error |-> "error"]
     ELSE IF Cardinality(found) = 1
     THEN [data |-> Some(table[CHOOSE i \in found : TRUE]), error |-> "none"]
     ELSE [data |-> None, error |-> "PGRST116"]

\* the row telegramAuth inserts for a verified user
NewUserRow(table, user) ==
  [id |-> Len(table) + 1, telegram_id |-> user.id, username |-> user.username,
   first_name |-> user.first_name, last_name |-> user.last_name,
   balance |-> 0, level |-> "Alpha Pup", level_points |-> 0]

\* jwt.sign({ userId, telegramId }, secret), req.user, req.token, next();
\* the catch answers 401 when signing throws
Finish(req, userId, signFails) ==
  IF signFails
  THEN Unauthorized([req EXCEPT !.threw = "sign"], "Authentication failed")
  ELSE [req EXCEPT !.pc = "done", !.nextCalls = @ + 1,
                   !.reqUser = Some([id |-> userId, telegramId |-> req.user[1].id]),
                   !.token = Some([userId |-> userId, telegramId |-> req.user[1].id])]

\* after the select: an error other than PGRST116 is thrown, an existing
\* user is taken, and otherwise the insert is awaited
AfterSelect(req, answer, signFails) ==
  LET asked == [req EXCEPT !.dbAccesses = @ + 1, !.dbError = answer.error]
  IN IF answer.error \notin {"none", "PGRST116"}
     THEN Unauthorized([asked EXCEPT !.threw = "select"], "Authentication failed")
     ELSE IF answer.data = None THEN [asked EXCEPT !.pc = "insert"]
     ELSE Finish([asked EXCEPT !.source = "found"], answer.data[1].id, signFails)

\* after the insert: createError is thrown, or the new row is the user
AfterInsert(req, row, insertFails, signFails) ==
  LET asked == [req EXCEPT !.dbAccesses = @ + 1,
                            !.dbError = IF insertFails THEN "error" ELSE "none"]
  IN IF insertFails
     THEN Unauthorized([asked EXCEPT !.threw = "insert"], "Authentication failed")
     ELSE Finish([asked EXCEPT !.source = "created"], row.id, signFails)

InitAuth ==
  /\ users = <<>>
  /\ reqs = [r \in ReqIds |-> NewRequest]

\* a request arrives: the header is checked and verified
AuthBegin ==
  /\ scope = "auth"
  /\ \E r \in ReqIds, h \in Headers :
       /\ reqs[r].pc = "new"
       /\ reqs' = [reqs EXCEPT ![r] = Begin(reqs[r], h, botToken)]
  /\ UNCHANGED <<users, notAuth>>

\* the datastore answers the select
AuthSelect ==
  /\ scope = "auth"
  /\ \E r \in ReqIds, fails \in BOOLEAN, signFails \in BOOLEAN :
       /\ reqs[r].pc = "select"
       /\ reqs' = [reqs EXCEPT ![r] =
            AfterSelect(reqs[r], SelectSingle(users, reqs[r].user[1].id, fails), signFails)]
  /\ UNCHANGED <<users, notAuth>>

\* the datastore answers the insert
AuthInsert ==
  /\ scope = "auth"
  /\ \E r \in ReqIds, insertFails \in BOOLEAN, signFails \in BOOLEAN :
       LET row == NewUserRow(users, reqs[r].user[1])
       IN /\ reqs[r].pc = "insert"
          /\ users' = IF insertFails THEN users ELSE Append(users, row)
          /\ reqs' = [reqs EXCEPT ![r] = AfterInsert(reqs[r], row, insertFails, signFails)]
  /\ UNCHANGED notAuth

NextAuth ==
  \/ AuthBegin
  \/ AuthSelect
  \/ AuthInsert

(***************************************************************************)
(* The bot commands and the notification senders.  A handler is one step;  *)
(* fail names the call that throws during it ("none": none does).  Its     *)
(* outcome is the lookups it made, the messages it handed to               *)
(* bot.sendMessage, the errors it logged and whether its promise rejects.  *)
(***************************************************************************)
ChatIds == {"c1", "c2"}

ConnectFirst == "Please connect your account first using /connect"

\* Math.random().toString(36).substring(2, 8)
ConnectionCodes == {"k3x9a1", "q07zzb"}

\* a TelegramUser document linked to the user with a UserLevel entry
LinkedUser ==
  [userId |-> "u1", settings |-> [notifications |-> TRUE, syncFrequency |-> "daily"]]

\* an achievement as the notification and the /achievements reply read it
AnAchievement == [icon |-> "*", name |-> "First steps", description |-> "One lesson done"]

\* bot.sendMessage may throw; the lookups are taken to answer
BotFailPoints == {"none", "sendMessage"}

\* the handler handed text to bot.sendMessage after lookups; the commands
\* have no try/catch, so its promise rejects when the send throws
Replied(lookups, text, fail) ==
  [lookups |-> lookups, sends |-> <<text>>, logged |-> <<>>,
   rejected |-> (fail = "sendMessage")]

\* bot.onText(/\/start/)
StartCommand(fail) == Replied(<<>>, "Welcome to the Learning Bot!", fail)

\* bot.onText(/\/connect/)
ConnectCommand(connectionCode, fail) ==
  Replied(<<>>, "Your connection code is: " \o connectionCode, fail)

\* bot.onText(/\/help/)
HelpCommand(fail) == Replied(<<>>, "Help Guide", fail)

\* a slip: the UserLevel is looked up whether or not the chat is linked
ProgressCommand_NoGate(telegramUser, levels, fail) ==
  IF telegramUser = None \/ levels[telegramUser[1].userId] = None
  THEN Replied(<<"TelegramUser.findOne", "UserLevel.findOne">>,
               "No progress data found", fail)
  ELSE Replied(<<"TelegramUser.findOne", "UserLevel.findOne">>, "Your Progress", fail)

\* bot.onText(/\/progress/)
ProgressCommand(telegramUser, levels, fail) ==
  IF telegramUser = None
  THEN Replied(<<"TelegramUser.findOne">>, ConnectFirst, fail)
  ELSE IF levels[telegramUser[1].userId] = None
  THEN Replied(<<"TelegramUser.findOne", "UserLevel.findOne">>,
               "No progress data found", fail)
  ELSE Replied(<<"TelegramUser.findOne", "UserLevel.findOne">>, "Your Progress", fail)

\* bot.onText(/\/achievements/)
AchievementsCommand(telegramUser, levels, fail) ==
  IF telegramUser = None
  THEN Replied(<<"TelegramUser.findOne">>, ConnectFirst, fail)
  ELSE IF \/ levels[telegramUser[1].userId] = None
          \/ Len(levels[telegramUser[1].userId][1].achievements) = 0
  THEN Replied(<<"TelegramUser.findOne", "UserLevel.findOne">>,
               "No achievements unlocked yet", fail)
  ELSE Replied(<<"TelegramUser.findOne", "UserLevel.findOne">>,
               "Your Achievements", fail)

\* bot.onText(/\/streak/)
StreakCommand(telegramUser, levels, fail) ==
  IF telegramUser = None
  THEN Replied(<<"TelegramUser.findOne">>, ConnectFirst, fail)
  ELSE IF levels[telegramUser[1].userId] = None
  THEN Replied(<<"TelegramUser.findOne", "UserLevel.findOne">>,
               "No streak data found", fail)
  ELSE Replied(<<"TelegramUser.findOne", "UserLevel.findOne">>, "Your Streak", fail)

\* bot.onText(/\/settings/)
SettingsCommand(telegramUser, fail) ==
  IF telegramUser = None
  THEN Replied(<<"TelegramUser.findOne">>, ConnectFirst, fail)
  ELSE Replied(<<"TelegramUser.findOne">>, "Your Settings", fail)

\* the handler bot.onText registered for command
CommandHandler(command, telegramUser, levels, connectionCode, fail) ==
  CASE command = "/start" -> StartCommand(fail)
    [] command = "/connect" -> ConnectCommand(connectionCode, fail)
    [] command = "/progress" -> ProgressCommand(telegramUser, levels, fail)
    [] command = "/achievements" -> AchievementsCommand(telegramUser, levels, fail)
    [] command = "/streak" -> StreakCommand(telegramUser, levels, fail)
    [] command = "/settings" -> SettingsCommand(telegramUser, fail)
    [] command = "/help" -> HelpCommand(fail)

Commands ==
  {"/start", "/connect", "/progress", "/achievements", "/streak", "/settings", "/help"}

\* the send of a notification: an error is logged and swallowed
Delivered(text, fail) ==
  [lookups |-> <<>>, sends |-> <<text>>,
   logged |-> IF fail = "sendMessage" THEN <<"send error">> ELSE <<>>,
   rejected |-> FALSE]

\* building the message threw inside the try: nothing is sent
NotBuilt ==
  [lookups |-> <<>>, sends |-> <<>>, logged |-> <<"TypeError">>, rejected |-> FALSE]

\* sendAchievementNotification(telegramId, achievement); achievement is None
\* when the caller passes null or undefined
AchievementNotification(achievement, fail) ==
  IF achievement = None THEN NotBuilt
  ELSE Delivered("Achievement Unlocked! " \o achievement[1].icon \o " "
                   \o achievement[1].name \o " " \o achievement[1].description, fail)

\* a slip: no try/catch around the send
LevelUpNotification_NoCatch(newLevel, fail) ==
  [lookups |-> <<>>, sends |-> <<"Level Up! You've reached level " \o newLevel \o "!">>,
   logged |-> <<>>, rejected |-> (fail = "sendMessage")]

\* sendLevelUpNotification(telegramId, newLevel)
LevelUpNotification(newLevel, fail) ==
  Delivered("Level Up! You've reached level " \o newLevel \o "!", fail)

\* sendWithdrawalNotification(telegramId, amount, status)
WithdrawalNotification(amount, status, fail) ==
  Delivered("Withdrawal Update Amount: " \o amount \o " coins Status: " \o status, fail)

\* sendDailyBonusNotification(telegramId, amount)
DailyBonusNotification(amount, fail) ==
  Delivered("Daily Bonus Claimed! You received " \o amount \o " coins!", fail)

Notifications ==
  {"sendAchievementNotification", "sendLevelUpNotification",
   "sendWithdrawalNotification", "sendDailyBonusNotification"}

\* the template literal's text of a value: a number or undefined
Interpolated == {"2", "50", "undefined"}

NoCommand ==
  [op |-> "none", chatId |-> "none", arg |-> "", fail |-> "none",
   lookups |-> <<>>, sends |-> <<>>, logged |-> <<>>, rejected |-> FALSE]

\* what a handler that ran leaves in the state: no collection is written
Ran(op, chatId, arg, fail, out) ==
  /\ scope = "bot"
  /\ botLast' = [op |-> op, chatId |-> chatId, arg |-> arg, fail |-> fail,
                 lookups |-> out.lookups, sends |-> out.sends,
                 logged |-> out.logged, rejected |-> out.rejected]
  /\ UNCHANGED <<telegramUsers, achievementDocs, notBot>>

\* the bot is not used
IdleBot ==
  /\ telegramUsers = [c \in ChatIds |-> None]
  /\ achievementDocs = {}
  /\ botLast = NoCommand

\* the collections the bot reads, as linking and the progress routes left them
InitBot ==
  /\ telegramUsers \in [ChatIds -> {None, Some(LinkedUser)}]
  /\ achievementDocs \in {{}, {AnAchievement}}
  /\ botLast = NoCommand
  /\ userLevels \in [ProgressUsers ->
                       {None, Some(NewUserLevel(0)),
                        Some([NewUserLevel(0) EXCEPT !.achievements = <<AnAchievement>>])}]
  /\ today = 0
  /\ levelUpCalls = [u \in ProgressUsers |-> <<>>]
  /\ last = NoRequest

\* a chat sends a command to the bot
BotCommand ==
  /\ scope = "bot"
  /\ \E command \in Commands, chatId \in ChatIds, code \in ConnectionCodes,
        fail \in BotFailPoints :
       /\ command # "/connect" => code = "k3x9a1"
       /\ Ran(command, chatId, "", fail,
              CommandHandler(command, telegramUsers[chatId], userLevels, code, fail))

SendAchievementNotification ==
  /\ scope = "bot"
  /\ \E chatId \in ChatIds, achievement \in {None, Some(AnAchievement)},
        fail \in BotFailPoints :
       Ran("sendAchievementNotification", chatId,
           IF achievement = None THEN "null" ELSE "object", fail,
           AchievementNotification(achievement, fail))

SendLevelUpNotification ==
  /\ scope = "bot"
  /\ \E chatId \in ChatIds, newLevel \in Interpolated, fail \in BotFailPoints :
       Ran("sendLevelUpNotification", chatId, newLevel, fail,
           LevelUpNotification(newLevel, fail))

SendWithdrawalNotification ==
  /\ scope = "bot"
  /\ \E chatId \in ChatIds, amount \in Interpolated, status \in {"pending", "undefined"},
        fail \in BotFailPoints :
       Ran("sendWithdrawalNotification", chatId, amount, fail,
           WithdrawalNotification(amount, status, fail))

SendDailyBonusNotification ==
  /\ scope = "bot"
  /\ \E chatId \in ChatIds, amount \in Interpolated, fail \in BotFailPoints :
       Ran("sendDailyBonusNotification", chatId, amount, fail,
           DailyBonusNotification(amount, fail))

NextBot ==
  \/ BotCommand
  \/ SendAchievementNotification
  \/ SendLevelUpNotification
  \/ SendWithdrawalNotification
  \/ SendDailyBonusNotification

(***************************************************************************)
(* The ad service.  A call is one step; a save it awaits may fail.         *)
(***************************************************************************)
AdIds == {"a1", "a2"}
UserIds == {"u1", "u2"}
\* a user id no User document has
NoSuchUser == "u9"

\* the adData createAd is called with: the first ad pays points, the
\* second premium days or a reward type the service does not know
AdData(a) ==
  IF a = "a1"
  THEN {[type |-> "video", targetLevel |-> 1, rewardType |-> "points", rewardAmount |-> 2,
         status |-> "active", startDate |-> 0, endDate |-> 9]}
  ELSE {[type |-> "video", targetLevel |-> 2, rewardType |-> "premium", rewardAmount |-> 1,
         status |-> "active", startDate |-> 0, endDate |-> 9],
        [type |-> "banner", targetLevel |-> 1, rewardType |-> "coins", rewardAmount |-> 5,
         status |-> "active", startDate |-> 1, endDate |-> 9]}

\* new Ad(adData)
NewAd(adData) ==
  [type |-> adData.type, targetLevel |-> adData.targetLevel,
   rewardType |-> adData.rewardType, rewardAmount |-> adData.rewardAmount,
   status |-> adData.status, startDate |-> adData.startDate,
   endDate |-> adData.endDate, views |-> <<>>, clicks |-> <<>>]

\* Model.findById(id)
FindById(collection, id) == IF id \in DOMAIN collection THEN collection[id] ELSE None

LogEntry(userId, day) == [userId |-> userId, timestamp |-> day]

\* the $match of getAdForUser
Matches(ad, adType, user, day) ==
  /\ ad.status = "active"
  /\ ad.type = adType
  /\ ad.targetLevel <= user.level
  /\ ad.startDate <= day
  /\ ad.endDate >= day

\* a slip: the user is looked up before the ad
RewardLookup_UserFirst(ad, user) ==
  IF user = None THEN "User not found"
  ELSE IF ad = None THEN "Ad not found"
  ELSE "none"

\* the lookups of processAdReward and the error they throw
RewardLookup(ad, user) ==
  IF ad = None THEN "Ad not found"
  ELSE IF user = None THEN "User not found"
  ELSE "none"

\* a slip: a user is rewarded once for an ad
GrantReward_Once(ad, user, userId) ==
  IF \E i \in 1..Len(ad.views) : ad.views[i].userId = userId THEN user
  ELSE IF ad.rewardType = "points"
  THEN [user EXCEPT !.points = @ + ad.rewardAmount]
  ELSE IF ad.rewardType = "premium"
  THEN [user EXCEPT !.premiumDays = @ + ad.rewardAmount]
  ELSE user

\* the reward of processAdReward
GrantReward(ad, user, userId) ==
  IF ad.rewardType = "points"
  THEN [user EXCEPT !.points = @ + ad.rewardAmount]
  ELSE IF ad.rewardType = "premium"
  THEN [user EXCEPT !.premiumDays = @ + ad.rewardAmount]
  ELSE user

\* ad.views.push({ userId, timestamp: new Date() })
RecordView(ad, userId, day) == [ad EXCEPT !.views = Append(@, LogEntry(userId, day))]

\* the metrics of getAdMetrics; ctr is the fraction <<clicks * 100, views>>
Metrics(ad) ==
  [totalViews |-> Len(ad.views),
   totalClicks |-> Len(ad.clicks),
   uniqueViewers |-> Cardinality({ad.views[i].userId : i \in 1..Len(ad.views)}),
   uniqueClickers |-> Cardinality({ad.clicks[i].userId : i \in 1..Len(ad.clicks)}),
   ctr |-> IF Len(ad.views) > 0 THEN <<Len(ad.clicks) * 100, Len(ad.views)>>
           ELSE <<0, 1>>]

LogSize ==
  LET RECURSIVE Sum(_)
      Sum(S) == IF S = {} THEN 0
                ELSE LET a == CHOOSE x \in S : TRUE
                     IN (IF ads[a] = None THEN 0
                         ELSE Len(ads[a][1].views) + Len(ads[a][1].clicks))
                        + Sum(S \ {a})
  IN Sum(AdIds)

Granted ==
  LET RECURSIVE Sum(_)
      Sum(S) == IF S = {} THEN 0
                ELSE LET u == CHOOSE x \in S : TRUE
                     IN adUsers[u][1].points + adUsers[u][1].premiumDays + Sum(S \ {u})
  IN Sum(UserIds)

Called(op, adId, userId, error, returned) ==
  [op |-> op, adId |-> adId, userId |-> userId, error |-> error,
   returned |-> returned]

InitAds ==
  /\ ads = [a \in AdIds |-> None]
  /\ adUsers = [u \in UserIds |-> Some([points |-> 0, premiumDays |-> 0,
                                         level |-> IF u = "u1" THEN 1 ELSE 2])]
  /\ adLast = Called("none", "none", "none", "none", None)

\* adService.createAd(adData)
CreateAd ==
  /\ scope = "ads"
  /\ \E a \in AdIds, saveFails \in BOOLEAN : \E adData \in AdData(a) :
       /\ ads[a] = None
       /\ a = "a1" \/ ads["a1"] # None
       /\ ads' = IF saveFails THEN ads ELSE [ads EXCEPT ![a] = Some(NewAd(adData))]
       /\ adLast' = Called("createAd", a, "none",
                           IF saveFails THEN "save failed" ELSE "none", None)
  /\ UNCHANGED <<adUsers, notAds>>

\* adService.getAdForUser(userId, adType)
GetAdForUser ==
  /\ scope = "ads"
  /\ \E u \in UserIds \cup {NoSuchUser}, adType \in {"video", "banner"} :
       LET user == FindById(adUsers, u)
           sample == {a \in AdIds : /\ user # None
                                     /\ ads[a] # None
                                     /\ Matches(ads[a][1], adType, user[1], today)}
       IN IF user = None
          THEN adLast' = Called("getAdForUser", "none", u, "User not found", None)
          ELSE \/ /\ sample = {}
                  /\ adLast' = Called("getAdForUser", "none", u, "none", None)
               \/ \E a \in sample :
                    adLast' = Called("getAdForUser", a, u, "none", ads[a])
  /\ UNCHANGED <<ads, adUsers, notAds>>

\* adService.recordAdClick(adId, userId)
RecordAdClick ==
  /\ scope = "ads"
  /\ \E a \in AdIds, u \in UserIds, saveFails \in BOOLEAN :
       LET ad == FindById(ads, a)
       IN IF ad = None
          THEN /\ adLast' = Called("recordAdClick", a, u, "Ad not found", None)
               /\ ads' = ads
          ELSE LET clicked == [ad[1] EXCEPT !.clicks = Append(@, LogEntry(u, today))]
               IN /\ LogSize < MaxLog
                  /\ ads' = IF saveFails THEN ads ELSE [ads EXCEPT ![a] = Some(clicked)]
                  /\ adLast' = Called("recordAdClick", a, u,
                                      IF saveFails THEN "save failed" ELSE "none",
                                      IF saveFails THEN None ELSE Some(clicked))
  /\ UNCHANGED <<adUsers, notAds>>

\* adService.processAdReward(adId, userId); the two saves are issued
\* together and either may fail
ProcessAdReward ==
  /\ scope = "ads"
  /\ \E a \in AdIds, u \in UserIds \cup {NoSuchUser},
        adSaveFails \in BOOLEAN, userSaveFails \in BOOLEAN :
       LET ad == FindById(ads, a)
           user == FindById(adUsers, u)
           error == RewardLookup(ad, user)
       IN IF error # "none"
          THEN /\ adLast' = Called("processAdReward", a, u, error, None)
               /\ UNCHANGED <<ads, adUsers>>
          ELSE LET viewed == RecordView(ad[1], u, today)
                   rewarded == GrantReward(ad[1], user[1], u)
               IN /\ LogSize < MaxLog
                  /\ Granted + (rewarded.points - user[1].points)
                             + (rewarded.premiumDays - user[1].premiumDays) <= MaxGranted
                  /\ ads' = IF adSaveFails THEN ads ELSE [ads EXCEPT ![a] = Some(viewed)]
                  /\ adUsers' = IF userSaveFails THEN adUsers
                                ELSE [adUsers EXCEPT ![u] = Some(rewarded)]
                  /\ adLast' = Called("processAdReward", a, u,
                                      IF adSaveFails \/ userSaveFails
                                      THEN "save failed" ELSE "none",
                                      None)
  /\ UNCHANGED notAds

\* adService.getAdMetrics(adId)
GetAdMetrics ==
  /\ scope = "ads"
  /\ \E a \in AdIds :
       LET ad == FindById(ads, a)
       IN adLast' = IF ad = None
                    THEN Called("getAdMetrics", a, "none", "Ad not found", None)
                    ELSE Called("getAdMetrics", a, "none", "none", Some(Metrics(ad[1])))
  /\ UNCHANGED <<ads, adUsers, notAds>>

\* adService.updateAdStatus(adId, status)
UpdateAdStatus ==
  /\ scope = "ads"
  /\ \E a \in AdIds, status \in {"active", "paused"}, saveFails \in BOOLEAN :
       LET ad == FindById(ads, a)
       IN IF ad = None
          THEN /\ adLast' = Called("updateAdStatus", a, "none", "Ad not found", None)
               /\ ads' = ads
          ELSE /\ ads' = IF saveFails THEN ads
                         ELSE [ads EXCEPT ![a] = Some([ad[1] EXCEPT !.status = status])]
               /\ adLast' = Called("updateAdStatus", a, "none",
                                   IF saveFails THEN "save failed" ELSE "none", None)
  /\ UNCHANGED <<adUsers, notAds>>

NextAds ==
  \/ CreateAd
  \/ GetAdForUser
  \/ RecordAdClick
  \/ ProcessAdReward
  \/ GetAdMetrics
  \/ UpdateAdStatus

(***************************************************************************)
(* processAdReward calls in flight together.  A call runs up to its next   *)
(* await in one step: the ad lookup, the user lookup, then the two saves   *)
(* issued together, which land one by one.  A save writes what the call    *)
(* changed on the document it loaded: the view is pushed onto the stored   *)
(* array, the reward field is set to the value computed in memory.         *)
(***************************************************************************)
CallIds == 1..MaxCalls

NoCall ==
  [pc |-> "idle", adId |-> "none", userId |-> "none", ad |-> None, user |-> None,
   adSave |-> "none", userSave |-> "none", error |-> "none"]

\* ad.save() after ad.views.push(entry): the entry is pushed onto the stored views
SaveAd(stored, entry) == [stored EXCEPT !.views = Append(@, entry)]

\* user.save() after the reward was added in memory: the fields the call
\* changed are set to their in-memory values
SaveUser(stored, loaded, local) ==
  [stored EXCEPT !.points = IF local.points # loaded.points THEN local.points ELSE @,
                 !.premiumDays = IF local.premiumDays # loaded.premiumDays
                                 THEN local.premiumDays ELSE @]

\* Promise.all([ad.save(), user.save()]) once both saves have landed
Settled(call) ==
  IF call.adSave = "pending" \/ call.userSave = "pending" THEN call
  ELSE IF call.adSave = "ok" /\ call.userSave = "ok"
  THEN [call EXCEPT !.pc = "resolved"]
  ELSE [call EXCEPT !.pc = "rejected", !.error = "save failed"]

\* the collections with one ad that pays points, and no call made
InitRace ==
  /\ ads = [a \in AdIds |-> IF a = "a1"
                             THEN Some(NewAd(CHOOSE d \in AdData("a1") : TRUE))
                             ELSE None]
  /\ adUsers = [u \in UserIds |-> Some([points |-> 0, premiumDays |-> 0,
                                         level |-> IF u = "u1" THEN 1 ELSE 2])]
  /\ adLast = Called("none", "none", "none", "none", None)
  /\ calls = [c \in CallIds |-> NoCall]

\* no processAdReward call is in flight
IdleRace == calls = [c \in CallIds |-> NoCall]

\* processAdReward(adId, userId) is called: Ad.findById is awaited
RaceCall ==
  /\ scope = "race"
  /\ \E c \in CallIds, a \in AdIds, u \in UserIds \cup {NoSuchUser} :
       /\ calls[c].pc = "idle"
       /\ calls' = [calls EXCEPT ![c] = [NoCall EXCEPT !.pc = "findAd",
                                                        !.adId = a, !.userId = u]]
  /\ UNCHANGED <<ads, adUsers, notRace>>

\* Ad.findById answers: 'Ad not found', or User.findById is awaited
RaceFindAd ==
  /\ scope = "race"
  /\ \E c \in CallIds :
       LET ad == FindById(ads, calls[c].adId)
       IN /\ calls[c].pc = "findAd"
          /\ calls' = [calls EXCEPT ![c] =
               IF RewardLookup(ad, Some("any")) # "none"
               THEN [@ EXCEPT !.pc = "rejected", !.error = RewardLookup(ad, Some("any"))]
               ELSE [@ EXCEPT !.pc = "findUser", !.ad = ad]]
  /\ UNCHANGED <<ads, adUsers, notRace>>

\* User.findById answers: 'User not found', or the view is pushed and the
\* reward added in memory and both saves are issued
RaceFindUser ==
  /\ scope = "race"
  /\ \E c \in CallIds :
       LET user == FindById(adUsers, calls[c].userId)
       IN /\ calls[c].pc = "findUser"
          /\ calls' = [calls EXCEPT ![c] =
               IF RewardLookup(calls[c].ad, user) # "none"
               THEN [@ EXCEPT !.pc = "rejected",
                              !.error = RewardLookup(calls[c].ad, user)]
               ELSE [@ EXCEPT !.pc = "saving", !.user = user,
                              !.adSave = "pending", !.userSave = "pending"]]
  /\ UNCHANGED <<ads, adUsers, notRace>>

\* ad.save() lands
RaceSaveAd ==
  /\ scope = "race"
  /\ \E c \in CallIds, fails \in BOOLEAN :
       LET call == calls[c]
       IN /\ call.pc = "saving"
          /\ call.adSave = "pending"
          /\ ads' = IF fails THEN ads
                    ELSE [ads EXCEPT ![call.adId] =
                            Some(SaveAd(@[1], LogEntry(call.userId, today)))]
          /\ calls' = [calls EXCEPT ![c] =
               Settled([call EXCEPT !.adSave = IF fails THEN "failed" ELSE "ok"])]
  /\ UNCHANGED <<adUsers, notRace>>

\* user.save() lands
RaceSaveUser ==
  /\ scope = "race"
  /\ \E c \in CallIds, fails \in BOOLEAN :
       LET call == calls[c]
           local == GrantReward(call.ad[1], call.user[1], call.userId)
       IN /\ call.pc = "saving"
          /\ call.userSave = "pending"
          /\ adUsers' = IF fails THEN adUsers
                        ELSE [adUsers EXCEPT ![call.userId] =
                                Some(SaveUser(@[1], call.user[1], local))]
          /\ calls' = [calls EXCEPT ![c] =
               Settled([call EXCEPT !.userSave = IF fails THEN "failed" ELSE "ok"])]
  /\ UNCHANGED <<ads, notRace>>

NextRace ==
  \/ RaceCall
  \/ RaceFindAd
  \/ RaceFindUser
  \/ RaceSaveAd
  \/ RaceSaveUser

(***************************************************************************)
(* Specifications.  Each runs one part of the server and leaves the state  *)
(* of the other parts as it is.                                            *)
(***************************************************************************)
\* no init data has been received
IdleVerify ==
  /\ initData = <<>>
  /\ signedPairs = <<>>
  /\ signToken = "tokA"
  /\ botToken = "tokA"
  /\ vres = None

InitV == scope = "verify" /\ InitVerify /\ InitProgress /\ InitAuth /\ InitAds /\ IdleBot /\ IdleRace
InitP == scope = "progress" /\ IdleVerify /\ InitProgress /\ InitAuth /\ InitAds /\ IdleBot /\ IdleRace
InitA == scope = "auth" /\ IdleVerify /\ InitProgress /\ InitAuth /\ InitAds /\ IdleBot /\ IdleRace
InitD == scope = "ads" /\ IdleVerify /\ InitProgress /\ InitAuth /\ InitAds /\ IdleBot /\ IdleRace
InitB == scope = "bot" /\ IdleVerify /\ InitBot /\ InitAuth /\ InitAds /\ IdleRace
InitR == scope = "race" /\ IdleVerify /\ InitProgress /\ InitAuth /\ IdleBot /\ InitRace
Init ==
  /\ scope \in {"progress", "auth", "ads"}
  /\ IdleVerify /\ InitProgress /\ InitAuth /\ InitAds /\ IdleBot /\ IdleRace
Next ==
  \/ Tick
  \/ GetProgress
  \/ PostExperience
  \/ SyncTelegram
  \/ GetAchievements
  \/ AuthBegin
  \/ AuthSelect
  \/ AuthInsert
  \/ CreateAd
  \/ GetAdForUser
  \/ RecordAdClick
  \/ ProcessAdReward
  \/ GetAdMetrics
  \/ UpdateAdStatus

\* the init data exchange alone
SpecVerify == InitV /\ [][NextVerify]_vars

\* the progress routes alone
SpecProgress == InitP /\ [][NextProgress]_vars

\* telegramAuth alone, its requests interleaved
SpecAuth == InitA /\ [][NextAuth]_vars

\* the ad service alone
SpecAds == InitD /\ [][NextAds]_vars

\* processAdReward calls interleaved at their awaits
SpecRace == InitR /\ [][NextRace]_vars

\* the bot commands and the notification senders alone
SpecBot == InitB /\ [][NextBot]_vars

\* the operations that reach a datastore: the progress routes, telegramAuth
\* and the ad service; they share no collection, and a run exercises one
Spec == Init /\ [][Next]_vars

(***************************************************************************)
(* Claims about verifyTelegramData, checked under SpecVerify.              *)
(***************************************************************************)
Received == Delete(initData, "hash")

\* the arrangements of the entries of data that are sorted by key
SortedArrangements(data) ==
  LET n == Len(data)
      arr == {[i \in 1..n |-> data[p[i]]] : p \in Permutations(1..n)}
  IN {s \in arr : \A i \in 1..n : \A j \in i..n : KeyRank(s[i].key) <= KeyRank(s[j].key)}

\* the 'hash' parameter is the MAC, under token, of the other parameters
\* sorted by key and joined with newlines
SignedBy(params, token) ==
  \E s \in SortedArrangements(Delete(params, "hash")) :
    Get(params, "hash") = Hmac(Hmac("WebAppData", token), JoinLines(s))

\* the 'user' parameter is absent, empty, or JSON text of a value other than null
UserParses(params) ==
  \/ Get(params, "user") \in {Null, ""}
  \/ JSONParse(Get(params, "user")).kind \notin {"SyntaxError", "null"}

SwapAt(s, i) == [s EXCEPT ![i] = s[i + 1], ![i + 1] = s[i]]

Occurrences(s, e) == Cardinality({i \in 1..Len(s) : s[i] = e})

\* a key or value other than 'hash' was changed, added or removed after signing
ParamsChanged ==
  \E e \in ParamEntries : Occurrences(Received, e) # Occurrences(signedPairs, e)

\* no arrangement by key of the received parameters gives the text that was signed
CheckStringChanged ==
  \A s \in SortedArrangements(Received) : JoinLines(s) # JoinLines(signedPairs)

\* C1 as stated: correctly signed init data always yields a non-null user.
C1_AsStated ==
  (vres # None /\ SignedBy(initData, botToken)) => vres[1].user # None

\* C1, amended: verifyTelegramData returns a non-null user for every init
\* data whose 'hash' is the MAC (keyed from the bot token) of the other
\* parameters sorted by key, provided the 'user' parameter is absent, empty
\* or JSON text of a non-null value; and the result does not change when two
\* neighbouring parameters with different keys change places.
C1_SignedAccepted ==
  vres # None =>
    /\ (SignedBy(initData, botToken) /\ UserParses(initData)) => vres[1].user # None
    /\ \A i \in 1..(Len(initData) - 1) :
         initData[i].key # initData[i + 1].key =>
           VerifyTelegramData(SwapAt(initData, i), botToken) = vres[1]

\* signed init data, received with the parameters in another order (the hash
\* first), was accepted with the user it names
C1_Witness ==
  /\ vres # None
  /\ Len(initData) >= 3
  /\ initData[1].key = "hash"
  /\ KeyRank(initData[2].key) > KeyRank(initData[3].key)
  /\ SignedBy(initData, botToken)
  /\ vres[1].user # None
  /\ vres[1].user[1].id = "7"

\* C2 as stated: init data in which a key or value other than 'hash' was
\* changed, added or removed after signing yields {user: null}.
C2_AsStated ==
  (vres # None /\ ParamsChanged) => vres[1].user = None

\* C2, amended: verifyTelegramData returns {user: null}, and does not throw,
\* for every init data whose data-check string (the parameters other than
\* 'hash' sorted by key, as key=value lines) differs from the one that was
\* signed, or whose 'hash' is missing or differs from the computed one, or
\* that was signed with another bot token.
C2_TamperedRejected ==
  vres # None =>
    /\ ~vres[1].threw
    /\ (\/ CheckStringChanged
        \/ Get(initData, "hash") = Null
        \/ ~SignedBy(initData, botToken)
        \/ signToken # botToken) => vres[1].user = None

\* a value was changed under the original hash of the right token, and the
\* data was rejected
C2_Witness ==
  /\ vres # None
  /\ signToken = botToken
  /\ Get(initData, "hash") = TelegramHash(signedPairs, signToken)
  /\ Len(Received) = Len(signedPairs)
  /\ ParamsChanged
  /\ CheckStringChanged
  /\ vres[1].user = None

(***************************************************************************)
(* Claims about the progress routes, checked under SpecProgress.           *)
(***************************************************************************)
StoredLevel(u) == IF userLevels[u] = None THEN 1 ELSE userLevels[u][1].level

\* C3 as stated: handleLevelUp has been called exactly once for each level a
\* user gained, with that level: after any sequence of requests the calls for
\* a user at level n carried the levels 2, 3, ..., n.
C3_AsStated ==
  \A u \in ProgressUsers :
    /\ Len(levelUpCalls[u]) = StoredLevel(u) - 1
    /\ \A i \in 1..Len(levelUpCalls[u]) : levelUpCalls[u][i] = i + 1

\* a step is a POST /experience that was answered with the success JSON
ExperienceStep ==
  /\ today' = today
  /\ last'.route = "POST /experience"
  /\ last'.status = 200

IsBefore(steps, a, b) ==
  \E i \in 1..Len(steps) : \E j \in (i + 1)..Len(steps) : steps[i] = a /\ steps[j] = b

C5_AsStated ==
  last.route # "none" =>
    /\ last.responses = 1
    /\ ~last.escaped
    /\ last.threw = "none" => last.status = 200
    /\ last.threw # "none" => (last.status = 500 /\ last.message # "")

\* C5, amended: every request is answered once and no exception escapes the
\* handler; the answer is a status 500 with a message when an awaited step
\* throws, and otherwise the success JSON, except that GET /achievements
\* answers 404 for a user without a UserLevel record; no step runs twice.
C5_OneResponse ==
  last.route # "none" =>
    /\ last.responses = 1
    /\ ~last.escaped
    /\ last.threw = "none" =>
         \/ last.status = 200
         \/ /\ last.route = "GET /achievements"
            /\ last.status = 404
            /\ userLevels[last.userId] = None
    /\ last.threw # "none" => (last.status = 500 /\ last.message # "")
    /\ \A i, j \in 1..Len(last.steps) : last.steps[i] = last.steps[j] => i = j

\* updateStreak threw after addExperience and the request was answered 500
C5_Witness ==
  /\ last.route = "POST /experience"
  /\ last.threw = "updateStreak"
  /\ last.status = 500
  /\ last.responses = 1

(***************************************************************************)
(* Claims about telegramAuth, checked under SpecAuth.                      *)
(***************************************************************************)
\* the header verifies: it is signed with the server's bot token and its
\* 'user' parameter parses
Verifies(header) == SignedBy(header, botToken) /\ UserParses(header)

RowsOf(id) == {i \in 1..Len(users) : users[i].telegram_id = id}

\* C7: for every request exactly one of 'next() is called' and 'a 401 is
\* sent' happens; next() is called only after the verification gave a user
\* and the user's row was found or created, with req.user and req.token set;
\* a missing header is answered 401 'No Telegram data provided' without
\* verification or datastore access, a header that does not verify 401
\* 'Invalid Telegram data' without datastore access, and a datastore error
\* (other than the 'no single row' answer PGRST116 of the select) or a
\* signing error 401 'Authentication failed'.
C7_Gate ==
  \A r \in ReqIds :
    LET q == reqs[r]
    IN /\ q.pc = "done" => q.nextCalls + q.responses = 1
       /\ q.pc # "done" => (q.nextCalls = 0 /\ q.responses = 0)
       /\ q.responses = 1 => q.status = 401
       /\ q.nextCalls = 1 =>
            /\ q.verified /\ q.user # None
            /\ q.source \in {"found", "created"}
            /\ q.reqUser # None /\ q.token # None
            /\ \E i \in 1..Len(users) :
                 /\ users[i].id = q.reqUser[1].id
                 /\ users[i].telegram_id = q.user[1].id
                 /\ q.reqUser[1].telegramId = q.user[1].id
       /\ (q.pc # "new" /\ q.header = None) =>
            /\ q.status = 401 /\ q.error = "No Telegram data provided"
            /\ ~q.verified /\ q.dbAccesses = 0
       /\ (q.header # None /\ ~Verifies(q.header[1])) =>
            /\ q.status = 401 /\ q.error = "Invalid Telegram data"
            /\ q.dbAccesses = 0
       /\ (q.dbError \notin {"none", "PGRST116"} \/ q.threw = "sign") =>
            /\ q.status = 401 /\ q.error = "Authentication failed"
            /\ q.nextCalls = 0
       /\ q.status = 401 =>
            \/ q.header = None
            \/ ~Verifies(q.header[1])
            \/ q.dbError \notin {"none", "PGRST116"}
            \/ q.threw = "sign"

\* one request created the user's row and passed, another found it and passed
C7_Witness ==
  \E r1, r2 \in ReqIds :
    /\ reqs[r1].nextCalls = 1 /\ reqs[r1].source = "created"
    /\ reqs[r2].nextCalls = 1 /\ reqs[r2].source = "found"
    /\ reqs[r1].reqUser = reqs[r2].reqUser

\* C8 as stated: once a request carrying a Telegram user id has passed
\* telegramAuth, the users table holds exactly one row with that
\* telegram_id, created with balance 0, level 'Alpha Pup' and level_points
\* 0, and every request that passed with that id got that row's id.
C8_AsStated ==
  \A r \in ReqIds :
    (reqs[r].nextCalls = 1 /\ reqs[r].user[1].id # Null) =>
      /\ Cardinality(RowsOf(reqs[r].user[1].id)) = 1
      /\ \A i \in RowsOf(reqs[r].user[1].id) :
           /\ reqs[r].reqUser[1].id = users[i].id
           /\ users[i].balance = 0
           /\ users[i].level = "Alpha Pup"
           /\ users[i].level_points = 0

\* C16 as stated: whenever next() was called, req.user.telegramId is a
\* non-null id, the one in the 'user' field of the init data, and no users
\* row has a null telegram_id.
C16_AsStated ==
  /\ \A r \in ReqIds :
       reqs[r].nextCalls = 1 =>
         /\ reqs[r].reqUser[1].telegramId \notin {Null, Undefined}
         /\ reqs[r].reqUser[1].telegramId = JSONParse(Get(reqs[r].header[1], "user")).id
  /\ \A i \in 1..Len(users) : users[i].telegram_id \notin {Null, Undefined}

(***************************************************************************)
(* Claims about the bot, checked under SpecBot.                            *)
(***************************************************************************)
GatedCommands == {"/progress", "/achievements", "/streak", "/settings"}

Contains(seq, e) == \E i \in 1..Len(seq) : seq[i] = e

\* C12: for a chat with no TelegramUser record each of /progress,
\* /achievements, /streak and /settings hands exactly the 'Please connect
\* your account first using /connect' message to bot.sendMessage and does
\* not look a UserLevel up; /start, /connect and /help reply without any
\* lookup; and no command, /connect included, changes the TelegramUser,
\* UserLevel or Achievement collection.
C12_CommandsGate ==
  [][botLast'.op \in Commands =>
       /\ telegramUsers' = telegramUsers
       /\ userLevels' = userLevels
       /\ achievementDocs' = achievementDocs
       /\ botLast'.op \in {"/start", "/connect", "/help"} =>
            (botLast'.lookups = <<>> /\ Len(botLast'.sends) = 1)
       /\ (botLast'.op \in GatedCommands /\ telegramUsers[botLast'.chatId] = None) =>
            /\ botLast'.sends = <<ConnectFirst>>
            /\ ~Contains(botLast'.lookups, "UserLevel.findOne")]_vars

\* an unlinked chat was told to connect while another chat is linked
C12_Witness ==
  /\ botLast.op \in GatedCommands
  /\ telegramUsers[botLast.chatId] = None
  /\ botLast.sends = <<ConnectFirst>>
  /\ botLast.lookups = <<"TelegramUser.findOne">>
  /\ \E c \in ChatIds : telegramUsers[c] # None

\* C13 as stated: every notification sender hands one message to
\* bot.sendMessage, exactly once, and its promise resolves; a send that
\* throws is logged and not retried.
C13_AsStated ==
  botLast.op \in Notifications =>
    /\ Len(botLast.sends) = 1
    /\ ~botLast.rejected
    /\ botLast.fail = "sendMessage" => Len(botLast.logged) = 1

\* C13: no notification sender rejects or sends twice; each hands one
\* message to bot.sendMessage, except sendAchievementNotification called
\* with a null or undefined achievement, which logs the TypeError of
\* building the message and sends nothing; a send that throws is logged
\* once and not retried.
C13_NeverFails ==
  botLast.op \in Notifications =>
    /\ ~botLast.rejected
    /\ Len(botLast.sends) =
         IF botLast.op = "sendAchievementNotification" /\ botLast.arg = "null"
         THEN 0 ELSE 1
    /\ Len(botLast.sends) = 0 => botLast.logged = <<"TypeError">>
    /\ (Len(botLast.sends) = 1 /\ botLast.fail = "sendMessage") =>
         botLast.logged = <<"send error">>
    /\ (Len(botLast.sends) = 1 /\ botLast.fail = "none") => botLast.logged = <<>>

\* a level-up notification whose send threw was logged and resolved
C13_Witness ==
  /\ botLast.op = "sendLevelUpNotification"
  /\ botLast.fail = "sendMessage"
  /\ botLast.sends = <<"Level Up! You've reached level 2!">>
  /\ botLast.logged = <<"send error">>
  /\ ~botLast.rejected

(***************************************************************************)
(* Claims about the ad service, checked under SpecAds.                     *)
(***************************************************************************)
\* a step is a processAdReward call that resolved
RewardStep ==
  /\ adLast'.op = "processAdReward"
  /\ adLast'.error = "none"

\* C9: a successful processAdReward(adId, userId) appends exactly one view
\* entry for userId to the ad's views, adds rewardAmount to the user's points
\* when rewardType is 'points', to premiumDays when it is 'premium' and to
\* neither otherwise, and leaves the ad's clicks and status, every other ad
\* and every other user unchanged, whatever views the ad already holds.
C9_RewardFrame ==
  [][RewardStep =>
       LET a == adLast'.adId
           u == adLast'.userId
           ad == ads[a][1]
           user == adUsers[u][1]
       IN /\ ads'[a] = Some([ad EXCEPT !.views = Append(@, LogEntry(u, today))])
          /\ ads'[a][1].clicks = ad.clicks
          /\ ads'[a][1].status = ad.status
          /\ adUsers'[u][1].points =
               user.points + (IF ad.rewardType = "points" THEN ad.rewardAmount ELSE 0)
          /\ adUsers'[u][1].premiumDays =
               user.premiumDays + (IF ad.rewardType = "premium" THEN ad.rewardAmount ELSE 0)
          /\ adUsers'[u][1].level = user.level
          /\ \A b \in AdIds \ {a} : ads'[b] = ads[b]
          /\ \A v \in UserIds \ {u} : adUsers'[v] = adUsers[v]]_vars

\* a user was rewarded a second time for the same ad
C9_Witness ==
  /\ adLast.op = "processAdReward"
  /\ adLast.error = "none"
  /\ ads[adLast.adId] # None
  /\ LET ad == ads[adLast.adId][1]
     IN /\ Len(ad.views) = 2
        /\ \A i \in 1..2 : ad.views[i].userId = adLast.userId
        /\ ad.rewardType = "premium"
        /\ adUsers[adLast.userId][1].premiumDays = 2 * ad.rewardAmount

\* C10: processAdReward throws 'Ad not found' when the ad does not exist and
\* 'User not found' when the ad exists and the user does not; recordAdClick,
\* getAdMetrics and updateAdStatus throw 'Ad not found' for a missing ad and
\* getAdForUser throws 'User not found' for a missing user; each of these
\* calls leaves the ads and the users as they were.
C10_LookupFailures ==
  [][LET op == adLast'.op
         noAd == adLast'.adId \in AdIds /\ ads[adLast'.adId] = None
         noUser == adLast'.userId \notin UserIds
     IN /\ (op = "processAdReward" /\ noAd) =>
             (adLast'.error = "Ad not found" /\ ads' = ads /\ adUsers' = adUsers)
        /\ (op = "processAdReward" /\ ~noAd /\ noUser) =>
             (adLast'.error = "User not found" /\ ads' = ads /\ adUsers' = adUsers)
        /\ (op \in {"recordAdClick", "getAdMetrics", "updateAdStatus"} /\ noAd) =>
             (adLast'.error = "Ad not found" /\ ads' = ads /\ adUsers' = adUsers)
        /\ (op = "getAdForUser" /\ noUser) =>
             (adLast'.error = "User not found" /\ ads' = ads /\ adUsers' = adUsers)
        /\ adLast'.error = "Ad not found" => noAd
        /\ adLast'.error = "User not found" => noUser]_vars

\* processAdReward was refused for an unknown user of an existing ad
C10_Witness ==
  /\ adLast.op = "processAdReward"
  /\ adLast.error = "User not found"
  /\ adLast.userId = NoSuchUser
  /\ ads[adLast.adId] # None
  /\ ads[adLast.adId][1].views = <<>>

\* the views an ad holds (none while it does not exist)
ViewCount(coll, a) == IF coll[a] = None THEN 0 ELSE Len(coll[a][1].views)

ClickCount(coll, a) == IF coll[a] = None THEN 0 ELSE Len(coll[a][1].clicks)

\* the call that a step made resolved, and it was op on ad a
Succeeded(op, a) ==
  /\ adLast'.op = op
  /\ adLast'.adId = a
  /\ adLast'.error = "none"

\* C11 as stated: getAdMetrics changes nothing and reports the logs, and the
\* logs count the successful calls: an ad's views grow by one with every
\* processAdReward on it that resolves and with no other call, and its clicks
\* by one with every recordAdClick on it that resolves and with no other
\* call; uniqueViewers and uniqueClickers are at most the totals, and ctr is
\* 0 without views and clicks * 100 / views otherwise.
C11_AsStated ==
  [][\A a \in AdIds :
       /\ ViewCount(ads', a) =
            ViewCount(ads, a) + (IF Succeeded("processAdReward", a) THEN 1 ELSE 0)
       /\ ClickCount(ads', a) =
            ClickCount(ads, a) + (IF Succeeded("recordAdClick", a) THEN 1 ELSE 0)
       /\ Succeeded("getAdMetrics", a) =>
            LET m == adLast'.returned[1]
            IN /\ ads' = ads /\ adUsers' = adUsers
               /\ m.totalViews = ViewCount(ads, a)
               /\ m.totalClicks = ClickCount(ads, a)
               /\ m.uniqueViewers <= m.totalViews
               /\ m.uniqueClickers <= m.totalClicks
               /\ m.ctr = IF m.totalViews = 0 THEN <<0, 1>>
                          ELSE <<m.totalClicks * 100, m.totalViews>>]_vars

\* C15 as stated: after any processAdReward call for an ad that pays points
\* or premium days, resolved or rejected, the view of the call is stored if
\* and only if the reward of the call is stored on the user.
C15_AsStated ==
  [][adLast'.op = "processAdReward" =>
       LET a == adLast'.adId
           u == adLast'.userId
       IN (ads[a] # None /\ u \in UserIds
             /\ ads[a][1].rewardType \in {"points", "premium"}) =>
            (ViewCount(ads', a) = ViewCount(ads, a) + 1
               <=> adUsers'[u] = Some(GrantReward(ads[a][1], adUsers[u][1], u)))]_vars

\* the calls made on ad a, and those of them that pay points to user u
CallsOn(a) == {c \in CallIds : calls[c].adId = a}

PointsCalls(u) ==
  {c \in CallIds : /\ calls[c].userId = u
                   /\ calls[c].ad # None
                   /\ calls[c].ad[1].rewardType = "points"}

\* C14 as stated: once all processAdReward calls have resolved, every user's
\* points are the initial points plus the rewardAmount of every 'points'
\* call for that user, and every ad's views hold one entry per call on it.
C14_AsStated ==
  (\A c \in CallIds : calls[c].pc = "resolved") =>
    /\ \A u \in UserIds :
         adUsers[u][1].points =
           Cardinality(PointsCalls(u)) * NewAd(CHOOSE d \in AdData("a1") : TRUE).rewardAmount
    /\ \A a \in AdIds : ViewCount(ads, a) = Cardinality(CallsOn(a))

(***************************************************************************)
(* Claims about all stored records, checked under Spec.                    *)
(***************************************************************************)
IsPrefix(s, t) == Len(s) <= Len(t) /\ \A i \in 1..Len(s) : t[i] = s[i]

\* a step is a request to route that was handled
RouteStep(route) == today' = today /\ last'.route = route

\* C6: a GET /progress or POST /experience that is not answered 500 for a
\* user without a UserLevel record creates one for that user; GET
\* /achievements creates none and answers 404; and no step removes a user
\* row, a UserLevel record, an ad, a user of the ad service, or an entry of an
\* ad's views or clicks.
C6_CreateNeverDelete ==
  [][/\ \A u \in ProgressUsers :
          /\ userLevels[u] # None => userLevels'[u] # None
          /\ ((RouteStep("GET /progress") \/ RouteStep("POST /experience"))
                /\ last'.userId = u /\ last'.status # 500 /\ userLevels[u] = None)
               => (userLevels'[u] # None /\ last'.status = 200)
          /\ (RouteStep("GET /achievements") /\ last'.userId = u /\ userLevels[u] = None)
               => /\ userLevels'[u] = None
                  /\ last'.status = IF last'.threw = "none" THEN 404 ELSE 500
     /\ IsPrefix(users, users')
     /\ \A a \in AdIds :
          ads[a] # None =>
            /\ ads'[a] # None
            /\ IsPrefix(ads[a][1].views, ads'[a][1].views)
            /\ IsPrefix(ads[a][1].clicks, ads'[a][1].clicks)
     /\ \A u \in UserIds : adUsers[u] # None => adUsers'[u] # None]_vars

\* a GET /progress created the record of a user who had none
C6_Witness ==
  /\ last.route = "GET /progress"
  /\ last.status = 200
  /\ last.steps = <<"findOne", "save">>
  /\ userLevels[last.userId] = Some(NewUserLevel(today))

====
